---- MODULE Spec2Model ----
(***************************************************************************)
(* Model of the maintenance agent (src/agent): the version state store,    *)
(* the decision policy, the analyzer's failure path, the notifier and the  *)
(* scan / process loop of MaintenanceAgent.run.                            *)
(*                                                                         *)
(* Representation of Python values                                         *)
(*   - a str that the code compares, concatenates or searches is a         *)
(*     sequence of one-character strings: "v1" is <<"v","1">>;             *)
(*   - None is the distinguished value None below, which is no such        *)
(*     sequence because its only element is not a single character;        *)
(*   - a value decoded from JSON is a record [t, n, items]: t is its JSON  *)
(*     type, n its number (t = "int"), items its elements (t = "list");    *)
(*   - free text that is only rendered (risk sentences) is a TLA+ string.  *)
(***************************************************************************)
EXTENDS Integers, Sequences, FiniteSets, TLC

\* ------------------------------------------------------------------------
\* Bounds of the model
\* ------------------------------------------------------------------------
MaxThreshold == 11

\* ------------------------------------------------------------------------
\* Strings
\* ------------------------------------------------------------------------
None == <<"None">>

UpperCase == <<"A","B","C","D","E","F","G","H","I","J","K","L","M",
               "N","O","P","Q","R","S","T","U","V","W","X","Y","Z">>
LowerCase == <<"a","b","c","d","e","f","g","h","i","j","k","l","m",
               "n","o","p","q","r","s","t","u","v","w","x","y","z">>

\* str.lower() on one character
LowerChar(c) ==
    IF \E k \in 1..26 : UpperCase[k] = c
    THEN LowerCase[CHOOSE k \in 1..26 : UpperCase[k] = c]
    ELSE c

\* str.lower()
lower(s) == [k \in 1..Len(s) |-> LowerChar(s[k])]

\* Python's  a in b  on two strs
Contains(b, a) ==
    \E k \in 0..(Len(b) - Len(a)) : SubSeq(b, k + 1, k + Len(a)) = a

UPDATE == <<"U","P","D","A","T","E">>
EVALUATE == <<"E","V","A","L","U","A","T","E">>
BLOCK == <<"B","L","O","C","K">>
IGNORE == <<"I","G","N","O","R","E">>
Recommendations == {UPDATE, EVALUATE, BLOCK, IGNORE}
unknown == <<"u","n","k","n","o","w","n">>

\* ------------------------------------------------------------------------
\* JSON values
\* ------------------------------------------------------------------------
JInt(n) == [t |-> "int", n |-> n, items |-> <<>>]
JStr == [t |-> "str", n |-> 0, items |-> <<>>]
JNull == [t |-> "null", n |-> 0, items |-> <<>>]
JList(xs) == [t |-> "list", n |-> 0, items |-> xs]

\* ------------------------------------------------------------------------
\* Configuration (config.yaml): sources, targets
\* ------------------------------------------------------------------------
AcmeW == <<"A","c","m","e","/","W">>
acmeg == <<"a","c","m","e","/","g">>
slashTags == <<"/","t","a","g","s">>

Sources == << [repo |-> acmeg, watch_for |-> {"tags"}],
              [repo |-> AcmeW, watch_for |-> {"releases"}] >>

Targets == << "org/deploy", "org/infra" >>

v1 == <<"v","1">>
v2 == <<"v","2">>
v1dot1 == <<"v","1",".","1">>
\* versions the state store is exercised with
Versions == {v1, v2}
\* versions the watched sources publish while the pipeline runs
Published == {v1}

\* keys under which the state document can hold a record
StateKeys == {Sources[k].repo : k \in 1..Len(Sources)}
             \cup {Sources[k].repo \o slashTags : k \in 1..Len(Sources)}

VARIABLES
    state,        \* StateManager.state: key -> Seen-State Record
    state_file,   \* the persisted state document agent/.agent_state.json
    recorded,     \* history: version of the most recent update_last_seen per key
    analysis,     \* the Verdict being handled
    min_priority, \* monitoring.thresholds.min_priority_score
    decision,     \* last result of should_create_issue
    pc,           \* position of the agent process
    i,            \* index of the source in the scan loop of run
    update,       \* the update handed to process_update
    current_version, \* local of process_update: last seen version or "unknown"
    llm,          \* history: the LLM answer analyze_update received
    issues,       \* target -> set of the titles of its open issues
    j,            \* index of the target in the loop of process_update
    last_notify,  \* history: the last create_update_notification call
    notify_log,   \* what process_update's notifier calls logged, per target
    issues_at_entry, \* history: the open issues when process_update started
    pr_invocations, \* number of PRCreator.create_update_pr calls
    scanned,      \* history: the sources scanned so far in this run, and
                  \* whether an exception of theirs was caught by run
    crashed,      \* history: the previous process died between two sources
    scan_input,   \* a scan_repository call: its repo_config and endpoint answers
    files,        \* target repository: path -> content on the default branch
    modifications, \* create_update_pr: the staged file modifications
    target_repo,  \* target repository: branch made, files committed, pulls opened
    remote_calls, \* history: remote calls create_update_pr has made, in order
    pr_result,    \* what create_update_pr returned
    content,      \* a file content under _update_file_content
    applications  \* number of times _update_file_content was applied to content

\* the variables of PRCreator, and with scan_input those of the operations
\* taken on their own
pr_vars == <<files, modifications, target_repo, remote_calls, pr_result,
             content, applications>>
op_vars == <<scan_input, pr_vars>>

vars == <<state, state_file, recorded, analysis, min_priority, decision,
          pc, i, update, current_version, llm, issues, j, last_notify,
          notify_log, issues_at_entry, pr_invocations, scanned, crashed,
          op_vars>>

\* ------------------------------------------------------------------------
\* StateManager (src/agent/scanners.py)
\* ------------------------------------------------------------------------
\* a Seen-State Record; its last_checked timestamp is written by
\* update_last_seen and read nowhere in the code, and is left out
NoRecord == [present |-> FALSE, last_version |-> None]
EmptyState == [k \in StateKeys |-> NoRecord]
NoFile == [status |-> "absent", doc |-> EmptyState]
SaveOutcomes == {"ok", "open_failed", "write_failed"}

\* _load_state: {} when the file is missing or json.load raises
load_state(file) ==
    IF file.status = "valid" THEN file.doc ELSE EmptyState

\* _save_state: open(.., "w") may fail (file untouched) or json.dump may
\* fail after the file was truncated; both errors are only logged
save_state(file, st, outcome) ==
    CASE outcome = "ok" -> [status |-> "valid", doc |-> st]
      [] outcome = "open_failed" -> file
      [] outcome = "write_failed" -> [status |-> "corrupt", doc |-> EmptyState]

get_last_seen(st, repo_key) ==
    IF st[repo_key].present THEN st[repo_key].last_version ELSE None

update_last_seen_without_version(st, repo_key, version) ==
    IF st[repo_key].present
    THEN st
    ELSE [st EXCEPT ![repo_key] = [present |-> TRUE, last_version |-> None]]

\* the in-memory part of update_last_seen; the caller saves
update_last_seen(st, repo_key, version) ==
    [st EXCEPT ![repo_key] = [present |-> TRUE, last_version |-> version]]

is_new_version_only_unrecorded(st, repo_key, version) ==
    get_last_seen(st, repo_key) = None

is_new_version(st, repo_key, version) ==
    LET last_seen == get_last_seen(st, repo_key)
    IN  last_seen = None \/ last_seen # version

\* ------------------------------------------------------------------------
\* Verdicts and the decision policy (src/agent/analyzer.py)
\* ------------------------------------------------------------------------
CriticalPriority == 9
DefaultMinPriority == 5
MaxPriority == 10

Verdict(p, rec) ==
    [priority |-> JInt(p), recommendation |-> rec, breaking_changes |-> FALSE,
     risks |-> JList(<<"a risk">>), benefits |-> JList(<<"a benefit">>),
     action_items |-> JList(<<"an action">>)]

NoAnalysis ==
    [priority |-> JNull, recommendation |-> None, breaking_changes |-> FALSE,
     risks |-> JNull, benefits |-> JNull, action_items |-> JNull]

\* priority >= 9 is evaluated first and raises TypeError when priority is
\* not a number
should_create_issue_raises(an, min_prio) == an.priority.t # "int"

should_create_issue_threshold_only(an, min_prio) ==
    an.priority.n >= min_prio /\ an.recommendation # IGNORE

should_create_issue_strict(an, min_prio) ==
    IF an.priority.n >= CriticalPriority \/ an.recommendation = BLOCK
    THEN TRUE
    ELSE an.priority.n = min_prio /\ an.recommendation # IGNORE

should_create_issue(an, min_prio) ==
    IF an.priority.n >= CriticalPriority \/ an.recommendation = BLOCK
    THEN TRUE
    ELSE IF an.priority.n >= min_prio /\ an.recommendation # IGNORE
         THEN TRUE
         ELSE FALSE

\* a result of should_create_issue; raised_from is the priority of the
\* Verdict at the application before this one, -1 when there was none
NoDecision == [made |-> FALSE, value |-> FALSE, raised_from |-> 0 - 1]
Decided(b) == [made |-> TRUE, value |-> b, raised_from |-> 0 - 1]

\* ------------------------------------------------------------------------
\* UpdateAnalyzer.analyze_update: the LLM answer and its parsing
\* ------------------------------------------------------------------------
\* The answer text is a sequence of tokens: the fence ```json, the fence ```,
\* white space, prose, and a complete JSON document.
NoDoc == [kind |-> "none", has |-> {}, fields |-> NoAnalysis]
FenceJson == [tok |-> "fence_json", value |-> NoDoc]
Fence == [tok |-> "fence", value |-> NoDoc]
Ws == [tok |-> "ws", value |-> NoDoc]
Prose == [tok |-> "text", value |-> NoDoc]
Json(doc) == [tok |-> "json", value |-> doc]

\* a JSON object that carries the given Verdict fields under the keys in has
Object(fields, has) == [kind |-> "object", has |-> has, fields |-> fields]
Array == [kind |-> "array", has |-> {}, fields |-> NoAnalysis]
BothKeys == {"priority", "recommendation"}

HasTok(text, toks) == \E k \in 1..Len(text) : text[k].tok \in toks
FirstTok(text, toks) ==
    CHOOSE k \in 1..Len(text) :
        /\ text[k].tok \in toks
        /\ \A m \in 1..(k - 1) : text[m].tok \notin toks

\* text.split(sep)[1].split("```")[0], sep the first fence of kind toks
BetweenFences(text, toks) ==
    LET rest == SubSeq(text, FirstTok(text, toks) + 1, Len(text))
    IN  IF HasTok(rest, {"fence", "fence_json"})
        THEN SubSeq(rest, 1, FirstTok(rest, {"fence", "fence_json"}) - 1)
        ELSE rest

\* lines 116-119 of analyzer.py
strip_fences(text) ==
    IF HasTok(text, {"fence_json"}) THEN BetweenFences(text, {"fence_json"})
    ELSE IF HasTok(text, {"fence"}) THEN BetweenFences(text, {"fence"})
    ELSE text

\* str.strip()
strip(text) ==
    IF \A k \in 1..Len(text) : text[k].tok = "ws" THEN <<>>
    ELSE LET a == CHOOSE k \in 1..Len(text) :
                      /\ text[k].tok # "ws"
                      /\ \A m \in 1..(k - 1) : text[m].tok = "ws"
             b == CHOOSE k \in 1..Len(text) :
                      /\ text[k].tok # "ws"
                      /\ \A m \in (k + 1)..Len(text) : text[m].tok = "ws"
         IN  SubSeq(text, a, b)

\* json.loads succeeds exactly on one complete JSON document
json_loads_ok(text) == Len(text) = 1 /\ text[1].tok = "json"
json_loads(text) == text[1].value

DegradedPriority == 5
Degraded ==
    [priority |-> JInt(DegradedPriority), recommendation |-> EVALUATE,
     breaking_changes |-> FALSE,
     risks |-> JList(<<"Unable to analyze automatically">>),
     benefits |-> JList(<<"Unknown">>),
     action_items |-> JList(<<"Review changelog manually">>)]

\* what the try block of analyze_update does with an answer that came back:
\* TRUE when it raises (json.loads, or analysis['priority'] /
\* analysis['recommendation'] in the log line)
parse_raises(text) ==
    LET body == strip(strip_fences(text))
    IN  \/ ~json_loads_ok(body)
        \/ json_loads(body).kind # "object"
        \/ ~(BothKeys \subseteq json_loads(body).has)

analyze_update_trusting(answer) ==
    IF answer.raises THEN Degraded
    ELSE LET body == strip(strip_fences(answer.text))
         IN  IF json_loads_ok(body) THEN json_loads(body).fields ELSE Degraded

analyze_update(answer) ==
    IF answer.raises \/ parse_raises(answer.text)
    THEN Degraded
    ELSE json_loads(strip(strip_fences(answer.text))).fields

\* ------------------------------------------------------------------------
\* Issue titles (UpdateAnalyzer.format_issue_title)
\* ------------------------------------------------------------------------
HighPriority == 7
Sp == <<" ">>
available == <<" ","a","v","a","i","l","a","b","l","e">>

format_issue_title_no_rec(repo_name, new_version, an) ==
    <<"(package)">> \o Sp \o repo_name \o Sp \o new_version \o available

format_issue_title(repo_name, new_version, an) ==
    LET emoji == IF an.priority.n >= CriticalPriority THEN <<"(siren)">>
                 ELSE IF an.priority.n >= HighPriority THEN <<"(warning)">>
                 ELSE IF an.recommendation = BLOCK THEN <<"(stop)">>
                 ELSE <<"(package)">>
    IN  emoji \o <<" ","[">> \o an.recommendation \o <<"]"," ">>
              \o repo_name \o Sp \o new_version \o available

\* format_issue_body iterates over the three lists of the Verdict
format_issue_body_raises(an) ==
    \/ an.risks.t \notin {"list", "str"}
    \/ an.benefits.t \notin {"list", "str"}
    \/ an.action_items.t \notin {"list", "str"}

\* ------------------------------------------------------------------------
\* GitHubNotifier (src/agent/notifier.py)
\* ------------------------------------------------------------------------
PerPage == 5
SearchStatuses == {"200", "403", "exception"}
CreateStatuses == {"201", "422", "exception"}

\* answers the search endpoint can give for a target with these open issues
SearchResponses(open_titles) ==
    {[status |-> "200", items |-> it] :
        it \in {x \in SUBSET open_titles :
                    Cardinality(x) <= PerPage}}
    \cup {[status |-> st, items |-> {}] : st \in SearchStatuses \ {"200"}}

check_existing_issue_case_sensitive(resp, search_title) ==
    IF resp.status = "200"
       /\ \E t \in resp.items : Contains(t, search_title)
    THEN CHOOSE t \in resp.items : Contains(t, search_title)
    ELSE None

check_existing_issue_failing_closed(resp, search_title) ==
    IF resp.status # "200" THEN search_title
    ELSE IF \E t \in resp.items : Contains(lower(t), lower(search_title))
    THEN CHOOSE t \in resp.items : Contains(lower(t), lower(search_title))
    ELSE None

\* the matching item, or None (also when the search failed)
check_existing_issue(resp, search_title) ==
    IF resp.status = "200"
       /\ \E t \in resp.items : Contains(lower(t), lower(search_title))
    THEN CHOOSE t \in resp.items : Contains(lower(t), lower(search_title))
    ELSE None

create_issue_any_answer(status) == status # "exception"

\* TRUE when an issue object is returned: only on 201
create_issue(status) == status = "201"

\* the line create_update_notification / create_issue logs for a call
logged(call) ==
    IF call.existing # None THEN "Skipping - similar issue already exists"
    ELSE IF call.success THEN "Created issue"
    ELSE "Failed to create issue"

NoCall ==
    [target |-> "", source_repo |-> None, new |-> None,
     title |-> None, search_term |-> None,
     search |-> [status |-> "none", items |-> {}], existing |-> None,
     post_made |-> FALSE, post_status |-> "none", success |-> FALSE,
     open_before |-> {}, open_after |-> {}]

\* one call, given the answers of the search and of the creation endpoint;
\* open_after is the target's issue list after the call
create_update_notification(target, open_titles, source_repo, new, an, search, create_status) ==
    LET title == format_issue_title(source_repo, new, an)
        search_term == source_repo \o Sp \o new
        existing == check_existing_issue(search, search_term)
        post_made == existing = None
        created == post_made /\ create_issue(create_status)
    IN  [target |-> target, source_repo |-> source_repo, new |-> new,
         title |-> title, search_term |-> search_term,
         search |-> search, existing |-> existing, post_made |-> post_made,
         post_status |-> IF post_made THEN create_status ELSE "none",
         success |-> created,
         open_before |-> open_titles,
         open_after |-> IF created THEN open_titles \cup {title}
                        ELSE open_titles]

\* ------------------------------------------------------------------------
\* GitHubScanner (src/agent/scanners.py): answers of the two endpoints
\* ------------------------------------------------------------------------
\* "200_array": a 200 whose JSON body is a non-empty array, not an object
ReleaseResponses ==
    [status : {"200", "404", "500", "exception"}, tag_name : Published]
    \cup {[status |-> "200_array", tag_name |-> None]}
TagResponses ==
    [status : {"200", "500", "exception"},
     tags : {<<>>} \cup {<<v>> : v \in Published}
            \cup {<<v, v2>> : v \in Published}]

NoReleaseResponse == [status |-> "exception", tag_name |-> None]
NoTagResponse == [status |-> "exception", tags |-> <<>>]

get_latest_release_any_status(resp) ==
    IF resp.status # "200_array" THEN resp.tag_name ELSE None

\* the release is represented by its tag_name
get_latest_release(resp) ==
    IF resp.status = "200" THEN resp.tag_name ELSE None

\* the tag is represented by its name; tags[0] is the first element
get_latest_tag(resp) ==
    IF resp.status = "200" /\ resp.tags # <<>> THEN resp.tags[1] ELSE None

\* ------------------------------------------------------------------------
\* MaintenanceAgent (src/agent/main.py)
\* ------------------------------------------------------------------------
NoUpdate == [type |-> "none", repo |-> None, version |-> None]

\* latest_release.get(..) raises AttributeError on a body that is no object
scan_repository_raises(repo_config, release_resp) ==
    "releases" \in repo_config.watch_for /\ release_resp.status = "200_array"

\* the key scan_repository gives to is_new_version for a source
scan_repo_key(repo_config) ==
    IF "releases" \in repo_config.watch_for
    THEN repo_config.repo
    ELSE repo_config.repo \o slashTags

\* the list of updates found for one source; the branches are if / elif
scan_repository(repo_config, st, release_resp, tag_resp) ==
    IF "releases" \in repo_config.watch_for
    THEN LET version == get_latest_release(release_resp)
         IN  IF version # None /\ is_new_version(st, repo_config.repo, version)
             THEN << [type |-> "release", repo |-> repo_config.repo,
                      version |-> version] >>
             ELSE <<>>
    ELSE IF "tags" \in repo_config.watch_for
    THEN LET version == get_latest_tag(tag_resp)
         IN  IF version # None
                /\ is_new_version(st, repo_config.repo \o slashTags, version)
             THEN << [type |-> "tag", repo |-> repo_config.repo,
                      version |-> version] >>
             ELSE <<>>
    ELSE <<>>

\* answers of the LLM used in the pipeline
MalformedPriority == [Verdict(0, BLOCK) EXCEPT !.priority = JStr]
MalformedRisks == [Verdict(9, UPDATE) EXCEPT !.risks = JNull]
\* the answers the pipeline is run with: the call raises, prose without JSON,
\* a bare and a fenced Verdict, and two Verdicts with a malformed field
LLMAnswers ==
    {[raises |-> TRUE, text |-> <<>>]}
    \cup {[raises |-> FALSE, text |-> t] :
            t \in {<<Prose>>,
                   <<Json(Object(Verdict(3, BLOCK), BothKeys))>>,
                   <<Prose, FenceJson, Ws, Json(Object(Verdict(3, UPDATE), BothKeys)),
                     Ws, Fence, Prose>>,
                   <<Json(Object(MalformedPriority, BothKeys))>>,
                   <<Json(Object(MalformedRisks, BothKeys))>>}}

NoAnswer == [raises |-> FALSE, text |-> <<>>]

MinPriorityScore == 6

\* values of the variables of the other operations while they are not used
NoScan == [repo_config |-> [repo |-> None, watch_for |-> {}],
           release |-> NoReleaseResponse, tag |-> NoTagResponse]
NoTargetRepo == [branch |-> FALSE, ref |-> None, committed |-> <<>>, pulls |-> 0]
ProposerIdle ==
    /\ files = <<>>
    /\ modifications = <<>>
    /\ target_repo = NoTargetRepo
    /\ remote_calls = <<>>
    /\ pr_result = None
    /\ content = <<>>
    /\ applications = 0
RestIdle ==
    /\ scanned = <<>>
    /\ crashed = FALSE
    /\ scan_input = NoScan
    /\ ProposerIdle

Init ==
    /\ state_file = NoFile
    /\ state = EmptyState
    /\ recorded = [k \in StateKeys |-> None]
    /\ analysis = NoAnalysis
    /\ min_priority = MinPriorityScore
    /\ decision = NoDecision
    /\ pc = "idle"
    /\ i = 1
    /\ update = NoUpdate
    /\ current_version = None
    /\ llm = NoAnswer
    /\ issues = [t \in 1..Len(Targets) |-> {}]
    /\ j = 1
    /\ last_notify = NoCall
    /\ notify_log = <<>>
    /\ issues_at_entry = issues
    /\ pr_invocations = 0
    /\ RestIdle

\* a new process: __init__ loads the state, run starts the scan loop
StartRun ==
    /\ pc = "idle"
    /\ state' = load_state(state_file)
    /\ i' = 1
    /\ scanned' = <<>>
    /\ pc' = "scan"
    /\ UNCHANGED <<state_file, recorded, min_priority, issues,
                   crashed, op_vars,
                   pr_invocations, update, analysis, decision, current_version, llm, j,
                   last_notify, notify_log, issues_at_entry>>

\* run, line 191: scan_repository for source i; an update enters process_update
Scan ==
    /\ pc = "scan"
    /\ i <= Len(Sources)
    /\ \E resp \in [release : ReleaseResponses, tag : {NoTagResponse}]
                  \cup [release : {NoReleaseResponse}, tag : TagResponses] :
         /\ LET updates == scan_repository(Sources[i], state, resp.release, resp.tag)
            IN  IF scan_repository_raises(Sources[i], resp.release)
             THEN /\ pc' = "caught"
                  /\ UNCHANGED <<i, update, current_version, issues_at_entry>>
             ELSE IF updates = <<>>
             THEN /\ i' = i + 1
                  /\ UNCHANGED <<pc, update, current_version, issues_at_entry>>
             ELSE /\ update' = updates[1]
                  /\ issues_at_entry' = issues
                  /\ current_version' =
                        IF get_last_seen(state, updates[1].repo) = None
                        THEN unknown
                        ELSE get_last_seen(state, updates[1].repo)
                  /\ pc' = "analyze"
                  /\ UNCHANGED i
         /\ scan_input' = [repo_config |-> Sources[i],
                            release |-> resp.release, tag |-> resp.tag]
    /\ scanned' = Append(scanned, [index |-> i, raised |-> FALSE])
    /\ UNCHANGED <<state, state_file, recorded, min_priority, issues,
                   analysis, decision, llm, j, last_notify, notify_log,
                   pr_invocations, crashed, pr_vars>>

\* process_update, lines 110-117
Analyze ==
    /\ pc = "analyze"
    /\ \E answer \in LLMAnswers : analysis' = analyze_update(answer)
    /\ pc' = "decide"
    /\ UNCHANGED <<state, state_file, recorded, min_priority, decision,
                   i, update, current_version, llm, issues, j, last_notify,
                   notify_log, issues_at_entry, pr_invocations, scanned, crashed, op_vars>>

\* update_last_seen with its save
RecordSeen(repo_key, version) ==
    /\ state' = update_last_seen(state, repo_key, version)
    /\ \E outcome \in SaveOutcomes :
         state_file' = save_state(state_file, state', outcome)

\* process_update, lines 124-133
Decide ==
    /\ pc = "decide"
    /\ IF should_create_issue_raises(analysis, min_priority)
       THEN /\ pc' = "caught"
            /\ UNCHANGED <<state, state_file, decision>>
       ELSE /\ decision' = Decided(should_create_issue(analysis, min_priority))
            /\ IF decision'.value
               THEN /\ pc' = "notify"
                    /\ UNCHANGED <<state, state_file>>
               ELSE /\ RecordSeen(update.repo, update.version)
                    /\ pc' = "returned"
    /\ UNCHANGED <<recorded, analysis, min_priority, i, update,
                   current_version, llm, issues, j, last_notify, notify_log,
                   issues_at_entry, pr_invocations, scanned, crashed, op_vars>>

\* process_update, lines 138-156: one iteration of the loop over the targets
Notify ==
    /\ pc = "notify"
    /\ IF format_issue_body_raises(analysis)
       THEN /\ pc' = "caught"
            /\ UNCHANGED <<issues, j, notify_log>>
       ELSE \E search \in SearchResponses(issues[j]),
               create_status \in CreateStatuses :
              LET call == create_update_notification(
                              Targets[j], issues[j], update.repo,
                              update.version, analysis, search, create_status)
              IN  /\ issues' = [issues EXCEPT ![j] = call.open_after]
                  /\ notify_log' = Append(notify_log, logged(call))
                  /\ j' = j + 1
                  /\ pc' = IF j = Len(Targets) THEN "record" ELSE "notify"
    /\ UNCHANGED <<state, state_file, recorded, analysis, min_priority,
                   decision, i, update, current_version, llm, last_notify,
                   issues_at_entry, pr_invocations, scanned, crashed, op_vars>>

\* process_update, lines 158-161
Record ==
    /\ pc = "record"
    /\ RecordSeen(update.repo, update.version)
    /\ pc' = "returned"
    /\ UNCHANGED <<recorded, analysis, min_priority, decision, i, update,
                   current_version, llm, issues, j, last_notify, notify_log,
                   issues_at_entry, pr_invocations, scanned, crashed, op_vars>>

NextSource_abort_on_error ==
    /\ pc \in {"returned", "caught"}
    /\ pc' = IF pc = "caught" THEN "idle" ELSE "scan"
    /\ i' = i + 1
    /\ update' = NoUpdate
    /\ current_version' = None
    /\ analysis' = NoAnalysis
    /\ decision' = NoDecision
    /\ j' = 1
    /\ notify_log' = <<>>
    /\ issues_at_entry' = issues
    /\ scanned' = [scanned EXCEPT ![Len(scanned)].raised = (pc = "caught")]
    /\ scan_input' = NoScan
    /\ UNCHANGED <<state, state_file, recorded, min_priority, issues,
                   llm, last_notify, pr_invocations, crashed, pr_vars>>

\* run, lines 193-202: process_update returned or its exception was caught;
\* the loop goes on with the next source
NextSource ==
    /\ pc \in {"returned", "caught"}
    /\ pc' = "scan"
    /\ i' = i + 1
    /\ update' = NoUpdate
    /\ current_version' = None
    /\ analysis' = NoAnalysis
    /\ decision' = NoDecision
    /\ j' = 1
    /\ notify_log' = <<>>
    /\ issues_at_entry' = issues
    /\ scanned' = [scanned EXCEPT ![Len(scanned)].raised = (pc = "caught")]
    /\ scan_input' = NoScan
    /\ UNCHANGED <<state, state_file, recorded, min_priority, issues,
                   llm, last_notify, pr_invocations, crashed, pr_vars>>

\* run, lines 204-207: the loop is over and the process ends
EndRun ==
    /\ pc = "scan"
    /\ i > Len(Sources)
    /\ pc' = "idle"
    /\ crashed' = FALSE
    /\ scan_input' = NoScan
    /\ UNCHANGED <<state, state_file, recorded, analysis, min_priority,
                   decision, i, update, current_version, llm, issues, j,
                   last_notify, notify_log, issues_at_entry, pr_invocations,
                   scanned, pr_vars>>

\* the process dies between two sources: what it held in memory is lost, the
\* state document and the targets' issues stay as they are
Crash ==
    /\ pc \in {"returned", "caught"}
    /\ i < Len(Sources)
    /\ pc' = "idle"
    /\ crashed' = TRUE
    /\ state' = EmptyState
    /\ i' = 1
    /\ scanned' = <<>>
    /\ update' = NoUpdate
    /\ current_version' = None
    /\ analysis' = NoAnalysis
    /\ decision' = NoDecision
    /\ j' = 1
    /\ notify_log' = <<>>
    /\ issues_at_entry' = issues
    /\ scan_input' = NoScan
    /\ UNCHANGED <<state_file, recorded, min_priority, issues, llm,
                   last_notify, pr_invocations, pr_vars>>

Next ==
    \/ StartRun
    \/ Scan
    \/ Analyze
    \/ Decide
    \/ Notify
    \/ Record
    \/ NextSource
    \/ EndRun
    \/ Crash

Spec == Init /\ [][Next]_vars

\* ------------------------------------------------------------------------
\* StateSpec: the state store under arbitrary update_last_seen calls
\* ------------------------------------------------------------------------
PipelineIdle ==
    /\ decision = NoDecision
    /\ i = 1
    /\ update = NoUpdate
    /\ current_version = None
    /\ llm = NoAnswer
    /\ issues = [t \in 1..Len(Targets) |-> {}]
    /\ j = 1
    /\ last_notify = NoCall
    /\ notify_log = <<>>
    /\ issues_at_entry = issues
    /\ pr_invocations = 0
    /\ scanned = <<>>
    /\ crashed = FALSE

Idle ==
    /\ PipelineIdle
    /\ scan_input = NoScan
    /\ ProposerIdle

StateInit ==
    /\ Idle
    /\ analysis = NoAnalysis
    /\ state_file = NoFile
    /\ state = EmptyState
    /\ recorded = [k \in StateKeys |-> None]
    /\ min_priority = DefaultMinPriority
    /\ pc = "state"

\* update_last_seen(repo_key, version) from any caller
StateRecordSeen ==
    /\ pc = "state"
    /\ \E repo_key \in StateKeys, version \in Versions :
         /\ RecordSeen(repo_key, version)
         /\ recorded' = [recorded EXCEPT ![repo_key] = version]
    /\ UNCHANGED <<analysis, min_priority, decision, pc, i, update,
                   current_version, llm, issues, j, last_notify, notify_log,
                   issues_at_entry, pr_invocations, scanned, crashed, op_vars>>

StateNext == StateRecordSeen

StateSpec == StateInit /\ [][StateNext]_vars

\* ------------------------------------------------------------------------
\* PolicySpec: should_create_issue on every Verdict and threshold
\* ------------------------------------------------------------------------
Priorities == 0..MaxPriority
Thresholds == (0 - 1)..MaxThreshold

PolicyInit ==
    /\ Idle
    /\ state_file = NoFile
    /\ state = EmptyState
    /\ recorded = [k \in StateKeys |-> None]
    /\ pc = "policy"
    /\ min_priority \in Thresholds
    /\ analysis \in {Verdict(p, rec) : p \in Priorities, rec \in Recommendations}

PolicyFrame ==
    UNCHANGED <<state, state_file, recorded, min_priority, pc, i, update,
                current_version, llm, issues, j, last_notify, notify_log,
                issues_at_entry, pr_invocations, scanned, crashed, op_vars>>

\* the policy is applied to the Verdict
PolicyDecide ==
    /\ pc = "policy"
    /\ ~decision.made
    /\ decision' = Decided(should_create_issue(analysis, min_priority))
    /\ UNCHANGED analysis
    /\ PolicyFrame

\* the policy is applied again to the same Verdict with a higher priority
PolicyRaisePriority ==
    /\ pc = "policy"
    /\ decision.made
    /\ \E p \in Priorities :
         /\ p > analysis.priority.n
         /\ analysis' = [analysis EXCEPT !.priority = JInt(p)]
    /\ decision' = [Decided(should_create_issue(analysis', min_priority))
                        EXCEPT !.raised_from = analysis.priority.n]
    /\ PolicyFrame

PolicyNext ==
    \/ PolicyDecide
    \/ PolicyRaisePriority

PolicySpec == PolicyInit /\ [][PolicyNext]_vars

\* ------------------------------------------------------------------------
\* AnalyzerSpec: analyze_update on every shape of LLM answer
\* ------------------------------------------------------------------------
MAYBE == <<"M","A","Y","B","E">>
AnalyzerDocs ==
    {Object(Verdict(p, rec), has) :
        p \in {0, DegradedPriority, CriticalPriority},
        rec \in Recommendations, has \in SUBSET BothKeys}
    \cup {Array, Object(MalformedPriority, BothKeys),
          Object(MalformedRisks, BothKeys),
          Object(Verdict(MaxPriority + 1, UPDATE), BothKeys),
          Object(Verdict(DegradedPriority, MAYBE), BothKeys)}

Shapes(d) ==
    { <<Json(d)>>,
      <<Ws, Json(d), Ws>>,
      <<Prose, Json(d)>>,
      <<Prose, FenceJson, Ws, Json(d), Ws, Fence, Prose>>,
      <<FenceJson, Json(d)>>,
      <<Fence, Ws, Json(d), Fence>>,
      <<FenceJson, Prose, Fence, Json(d)>>,
      <<Fence, Json(d), Fence, Prose, FenceJson, Prose, Fence>> }

AnalyzerAnswers ==
    {[raises |-> TRUE, text |-> <<>>]}
    \cup {[raises |-> FALSE, text |-> t] : t \in {<<>>, <<Prose>>, <<Ws>>}}
    \cup {[raises |-> FALSE, text |-> t] :
            t \in UNION {Shapes(d) : d \in AnalyzerDocs}}

AnalyzerInit ==
    /\ Idle
    /\ analysis = NoAnalysis
    /\ state_file = NoFile
    /\ state = EmptyState
    /\ recorded = [k \in StateKeys |-> None]
    /\ min_priority = DefaultMinPriority
    /\ pc = "llm"

\* the LLM call of analyze_update comes back or raises
AnalyzerAnswer ==
    /\ pc = "llm"
    /\ llm' \in AnalyzerAnswers
    /\ pc' = "answered"
    /\ UNCHANGED <<state, state_file, recorded, analysis, min_priority, decision,
                   i, update, current_version, issues, j, last_notify,
                   notify_log, issues_at_entry, pr_invocations, scanned, crashed, op_vars>>

\* the rest of analyze_update, lines 110-141
AnalyzerReturn ==
    /\ pc = "answered"
    /\ analysis' = analyze_update(llm)
    /\ pc' = "analyzed"
    /\ UNCHANGED <<state, state_file, recorded, min_priority, decision, i, update,
                   current_version, llm, issues, j, last_notify, notify_log,
                   issues_at_entry, pr_invocations, scanned, crashed, op_vars>>

AnalyzerNext ==
    \/ AnalyzerAnswer
    \/ AnalyzerReturn

AnalyzerSpec == AnalyzerInit /\ [][AnalyzerNext]_vars

\* ------------------------------------------------------------------------
\* NotifySpec: create_update_notification called again and again on a target
\* ------------------------------------------------------------------------
\* an issue a person opened in the target
HumanIssue == lower(AcmeW) \o Sp \o v1 \o <<" ","?">>
NotifyVersions == {v1, v1dot1}
NotifyVerdicts == {Verdict(HighPriority, UPDATE), MalformedRisks}

NotifyInit ==
    /\ decision = NoDecision
    /\ i = 1
    /\ update = NoUpdate
    /\ current_version = None
    /\ llm = NoAnswer
    /\ j = 1
    /\ last_notify = NoCall
    /\ notify_log = <<>>
    /\ pr_invocations = 0
    /\ RestIdle
    /\ analysis = NoAnalysis
    /\ state_file = NoFile
    /\ state = EmptyState
    /\ recorded = [k \in StateKeys |-> None]
    /\ min_priority = DefaultMinPriority
    /\ pc = "notifier"
    /\ issues \in {[t \in 1..Len(Targets) |-> IF t = 1 THEN first ELSE {}] :
                      first \in {{}, {HumanIssue}}}
    /\ issues_at_entry = issues

\* one create_update_notification call for the first target
NotifyCall ==
    /\ pc = "notifier"
    /\ \E new \in NotifyVersions, an \in NotifyVerdicts :
         IF format_issue_body_raises(an)
         THEN /\ pc' = "caught"
              /\ UNCHANGED <<issues, last_notify>>
         ELSE \E search \in SearchResponses(issues[1]),
                 create_status \in CreateStatuses :
                LET call == create_update_notification(
                                Targets[1], issues[1], AcmeW, new, an, search,
                                create_status)
                IN  /\ issues' = [issues EXCEPT ![1] = call.open_after]
                    /\ last_notify' = call
                    /\ UNCHANGED pc
    /\ UNCHANGED <<state, state_file, recorded, analysis, min_priority, decision,
                   i, update, current_version, llm, j, notify_log,
                   issues_at_entry, pr_invocations, scanned, crashed, op_vars>>

NotifyNext == NotifyCall

NotifySpec == NotifyInit /\ [][NotifyNext]_vars

\* ------------------------------------------------------------------------
\* ScanSpec: scan_repository on every configuration, answer and state
\* ------------------------------------------------------------------------
WatchFor == {{"releases"}, {"tags"}, {"releases", "tags"}}
ScanStates ==
    {[k \in StateKeys |->
        IF k = acmeg THEN a ELSE IF k = acmeg \o slashTags THEN b ELSE NoRecord] :
        a, b \in {NoRecord} \cup {[present |-> TRUE, last_version |-> v] :
                                   v \in Versions}}
ScanInputs ==
    [repo_config : {[repo |-> acmeg, watch_for |-> w] : w \in WatchFor},
     release : ReleaseResponses,
     tag : TagResponses]

ScanInit ==
    /\ PipelineIdle
    /\ ProposerIdle
    /\ analysis = NoAnalysis
    /\ state_file = NoFile
    /\ recorded = [k \in StateKeys |-> None]
    /\ min_priority = DefaultMinPriority
    /\ pc = "scan_call"
    /\ state \in ScanStates
    /\ scan_input \in ScanInputs

\* one scan_repository call; the first update of its list is kept
ScanCall ==
    /\ pc = "scan_call"
    /\ IF scan_repository_raises(scan_input.repo_config, scan_input.release)
       THEN /\ pc' = "caught"
            /\ UNCHANGED update
       ELSE LET updates == scan_repository(scan_input.repo_config, state,
                                           scan_input.release, scan_input.tag)
            IN  /\ update' = IF updates = <<>> THEN NoUpdate ELSE updates[1]
                /\ pc' = "scanned"
    /\ UNCHANGED <<state, state_file, recorded, analysis, min_priority,
                   decision, i, current_version, llm, issues, j, last_notify,
                   notify_log, issues_at_entry, pr_invocations, scanned,
                   crashed, op_vars>>

ScanNext == ScanCall

ScanSpec == ScanInit /\ [][ScanNext]_vars

\* ------------------------------------------------------------------------
\* PRCreator._update_file_content (src/agent/pr_creator.py)
\* ------------------------------------------------------------------------
ComfyUI ==
    <<"c","o","m","f","y","a","n","o","n","y","m","o","u","s","/","C",
      "o","m","f","y","U","I">>
SageAttention ==
    <<"t","h","u","-","m","l","/","S","a","g","e","A","t","t","e","n",
      "t","i","o","n">>
pytorch ==
    <<"p","y","t","o","r","c","h","/","p","y","t","o","r","c","h">>
COMFYUI_COMMIT ==
    <<"C","O","M","F","Y","U","I","_","C","O","M","M","I","T","=">>
SAGEATTENTION_COMMIT ==
    <<"S","A","G","E","A","T","T","E","N","T","I","O","N","_","C","O",
      "M","M","I","T","=">>
torch == <<"t","o","r","c","h">>

Digits == {"0","1","2","3","4","5","6","7","8","9"}
HexDigits == Digits \cup {"a","b","c","d","e","f"}
CommitLen == 7

\* str.lstrip(chars)
lstrip(s, chars) ==
    IF \A k \in 1..Len(s) : s[k] \in chars THEN <<>>
    ELSE SubSeq(s, CHOOSE k \in 1..Len(s) :
                      /\ s[k] \notin chars
                      /\ \A m \in 1..(k - 1) : s[m] \in chars,
                Len(s))

\* s[:n]
Take(s, n) == SubSeq(s, 1, IF Len(s) < n THEN Len(s) ELSE n)

StartsWith(s, at, prefix) ==
    /\ at + Len(prefix) - 1 <= Len(s)
    /\ SubSeq(s, at, at + Len(prefix) - 1) = prefix

\* length of the longest run of characters of class that starts at s[at]
RunLen(s, at, class) ==
    CHOOSE n \in 0..(Len(s) - at + 1) :
        /\ \A k \in at..(at + n - 1) : s[k] \in class
        /\ at + n > Len(s) \/ s[at + n] \notin class

\* the two shapes of pattern: (MARKER)([a-f0-9]+) and
\* (torch[>=]=)(\d+\.\d+\.\d+)
CommitPattern(marker) == [kind |-> "commit", marker |-> marker]
TorchPattern == [kind |-> "torch", marker |-> torch]

\* length of group 1 of a match
group1_len(pattern) ==
    IF pattern.kind = "commit" THEN Len(pattern.marker)
    ELSE Len(torch) + 2

\* length of the match of pattern that starts at s[at], 0 when there is none
match_len(pattern, s, at) ==
    IF pattern.kind = "commit"
    THEN LET h == at + Len(pattern.marker)
         IN  IF StartsWith(s, at, pattern.marker) /\ RunLen(s, h, HexDigits) >= 1
             THEN Len(pattern.marker) + RunLen(s, h, HexDigits)
             ELSE 0
    ELSE LET a == at + Len(torch) + 2
             d1 == RunLen(s, a, Digits)
             b == a + d1 + 1
             d2 == RunLen(s, b, Digits)
             c == b + d2 + 1
             d3 == RunLen(s, c, Digits)
         IN  IF /\ StartsWith(s, at, torch)
                /\ a - 1 <= Len(s)
                /\ s[a - 2] \in {">", "="}
                /\ s[a - 1] = "="
                /\ d1 >= 1 /\ a + d1 <= Len(s) /\ s[a + d1] = "."
                /\ d2 >= 1 /\ b + d2 <= Len(s) /\ s[b + d2] = "."
                /\ d3 >= 1
             THEN c + d3 - at
             ELSE 0

\* re.sub(pattern, "\g<1>" + repl, s), from position at on: leftmost matches,
\* one after the other, each replaced by its group 1 followed by repl
RECURSIVE re_sub(_, _, _, _)
re_sub(pattern, repl, s, at) ==
    IF at > Len(s) THEN <<>>
    ELSE LET n == match_len(pattern, s, at)
         IN  IF n > 0
             THEN SubSeq(s, at, at + group1_len(pattern) - 1) \o repl
                      \o re_sub(pattern, repl, s, at + n)
             ELSE <<s[at]>> \o re_sub(pattern, repl, s, at + 1)

update_file_content(file_content, update_repo, new_version) ==
    IF update_repo = ComfyUI
    THEN re_sub(CommitPattern(COMFYUI_COMMIT),
                Take(lstrip(new_version, {"v"}), CommitLen), file_content, 1)
    ELSE IF update_repo = SageAttention
    THEN re_sub(CommitPattern(SAGEATTENTION_COMMIT),
                Take(lstrip(new_version, {"v"}), CommitLen), file_content, 1)
    ELSE IF update_repo = pytorch
    THEN re_sub(TorchPattern, lstrip(new_version, {"v"}), file_content, 1)
    ELSE file_content

\* ------------------------------------------------------------------------
\* SubstSpec: _update_file_content applied again and again to a content
\* ------------------------------------------------------------------------
MaxApplications == 2

hash36357bb == <<"3","6","3","5","7","b","b">>
Contents ==
    { <<>>,
      <<"F","R","O","M"," ","x">>,
      COMFYUI_COMMIT,
      COMFYUI_COMMIT \o hash36357bb,
      <<"A","R","G"," ">> \o COMFYUI_COMMIT \o hash36357bb
          \o <<"\n">> \o COMFYUI_COMMIT \o <<"0","z">>,
      SAGEATTENTION_COMMIT \o <<"a","b","c"," ">>,
      torch \o <<"=","=","2",".","5",".","1">>,
      torch \o <<">","=","2",".","5",".","0"," ">> \o COMFYUI_COMMIT \o <<"1">>,
      torch \o <<"=","=","2",".","5">> }
SubstVersions ==
    { <<"v","1",".","2",".","3">>,
      <<"a","b","c","1","2","3","4">>,
      <<"v","v","3","6","3","5","7","b","b","c","c">>,
      <<"v">>,
      <<"2",".","6",".","0">>,
      <<"r","c","1">> }
SubstRepos == {ComfyUI, SageAttention, pytorch, AcmeW}

SubstInit ==
    /\ decision = NoDecision
    /\ i = 1
    /\ current_version = None
    /\ llm = NoAnswer
    /\ issues = [t \in 1..Len(Targets) |-> {}]
    /\ j = 1
    /\ last_notify = NoCall
    /\ notify_log = <<>>
    /\ issues_at_entry = issues
    /\ pr_invocations = 0
    /\ scanned = <<>>
    /\ crashed = FALSE
    /\ scan_input = NoScan
    /\ files = <<>>
    /\ modifications = <<>>
    /\ target_repo = NoTargetRepo
    /\ remote_calls = <<>>
    /\ pr_result = None
    /\ analysis = NoAnalysis
    /\ state_file = NoFile
    /\ state = EmptyState
    /\ recorded = [k \in StateKeys |-> None]
    /\ min_priority = DefaultMinPriority
    /\ pc = "substitute"
    /\ applications = 0
    /\ content \in Contents
    /\ update \in [type : {"release"}, repo : SubstRepos,
                   version : SubstVersions]

\* one more application of the rule of update.repo for update.version
SubstApply ==
    /\ pc = "substitute"
    /\ applications < MaxApplications
    /\ content' = update_file_content(content, update.repo, update.version)
    /\ applications' = applications + 1
    /\ UNCHANGED <<state, state_file, recorded, analysis, min_priority,
                   decision, pc, i, update, current_version, llm, issues, j,
                   last_notify, notify_log, issues_at_entry, pr_invocations,
                   scanned, crashed, scan_input, files, modifications,
                   target_repo, remote_calls, pr_result>>

SubstNext == SubstApply

SubstSpec == SubstInit /\ [][SubstNext]_vars

\* ------------------------------------------------------------------------
\* PRSpec: PRCreator.create_update_pr, one remote call after the other
\* ------------------------------------------------------------------------
Paths == {"Dockerfile", "init.sh", "requirements.txt"}

\* _determine_modifications, lines 122-128: the files to check for a source
file_patterns(update_repo) ==
    IF update_repo = ComfyUI THEN <<"Dockerfile">>
    ELSE IF update_repo = SageAttention THEN <<"Dockerfile", "init.sh">>
    ELSE IF update_repo = pytorch THEN <<"Dockerfile", "requirements.txt">>
    ELSE <<>>

staged_every_fetched(file_path, file_content, update_repo, new_version) ==
    IF file_content # None /\ file_content # <<>>
    THEN << [path |-> file_path,
             new_content |-> update_file_content(file_content, update_repo,
                                                 new_version)] >>
    ELSE <<>>

\* _determine_modifications, lines 131-143: what one fetched file adds to the
\* modifications; file_content is None when the fetch gave nothing
staged(file_path, file_content, update_repo, new_version) ==
    IF /\ file_content # None
       /\ file_content # <<>>
       /\ update_file_content(file_content, update_repo, new_version)
              # file_content
    THEN << [path |-> file_path,
             new_content |-> update_file_content(file_content, update_repo,
                                                 new_version)] >>
    ELSE <<>>

\* _format_pr_body compares the priority with 9 and iterates over the lists
format_pr_body_raises(an) ==
    an.priority.t # "int" \/ format_issue_body_raises(an)

PrUrl == <<"p","r","_","u","r","l">>
abc1234 == <<"a","b","c","1","2","3","4">>
v1dot2dot3 == <<"v","1",".","2",".","3">>
PrFiles ==
    {[p \in Paths |->
        IF p = "Dockerfile" THEN d ELSE IF p = "init.sh" THEN s ELSE r] :
        d \in {None, <<"F","R","O","M"," ","x">>,
               COMFYUI_COMMIT \o hash36357bb, COMFYUI_COMMIT \o abc1234,
               SAGEATTENTION_COMMIT \o hash36357bb},
        s \in {None, <<>>, SAGEATTENTION_COMMIT \o hash36357bb},
        r \in {None, torch \o <<"=","=","2",".","5",".","1">>}}
PrVerdicts ==
    {Verdict(HighPriority, UPDATE), Verdict(3, BLOCK),
     [Verdict(0, EVALUATE) EXCEPT !.priority = JStr]}

PRInit ==
    /\ decision = NoDecision
    /\ i = 1
    /\ current_version = None
    /\ llm = NoAnswer
    /\ issues = [t \in 1..Len(Targets) |-> {}]
    /\ j = 1
    /\ last_notify = NoCall
    /\ notify_log = <<>>
    /\ issues_at_entry = issues
    /\ pr_invocations = 0
    /\ scanned = <<>>
    /\ crashed = FALSE
    /\ scan_input = NoScan
    /\ state_file = NoFile
    /\ state = EmptyState
    /\ recorded = [k \in StateKeys |-> None]
    /\ min_priority = DefaultMinPriority
    /\ content = <<>>
    /\ applications = 0
    /\ modifications = <<>>
    /\ target_repo = NoTargetRepo
    /\ remote_calls = <<>>
    /\ pr_result = None
    /\ pc = "pr_call"
    /\ files \in PrFiles
    /\ analysis \in PrVerdicts
    /\ update \in [type : {"release"},
                   repo : {ComfyUI, SageAttention, pytorch, AcmeW},
                   version : {v1dot2dot3, abc1234}]

\* str.replace for a pattern of one character
RECURSIVE replace(_, _, _)
replace(s, old, new) ==
    IF s = <<>> THEN <<>>
    ELSE (IF Head(s) = old THEN new ELSE <<Head(s)>>)
            \o replace(Tail(s), old, new)

update_slash == <<"u", "p", "d", "a", "t", "e", "/">>

generate_branch_name(update_info) ==
    LET repo_name == replace(update_info.repo, "/", <<"-">>)
        version == replace(replace(update_info.version, ".", <<"-">>),
                           "v", <<>>)
    IN  update_slash \o repo_name \o <<"-">> \o version

\* create_update_pr calls made one after the other for the same update
MaxAttempts == 2

PRFrame ==
    UNCHANGED <<state, state_file, recorded, analysis, min_priority, decision,
                i, update, current_version, llm, issues, j, last_notify,
                notify_log, issues_at_entry, scanned, crashed, scan_input,
                files, content, applications>>

\* create_update_pr returns
Return(result) ==
    /\ pc' = "pr_done"
    /\ pr_result' = result

Called(call, ok) == remote_calls' = Append(remote_calls, [call |-> call, ok |-> ok])

PRCall_no_refusal ==
    /\ pc = "pr_call"
    /\ pr_invocations' = pr_invocations + 1
    /\ pc' = "pr_fetch"
    /\ UNCHANGED <<pr_result, modifications, target_repo, remote_calls>>
    /\ PRFrame

\* create_update_pr, lines 49-59
PRCall ==
    /\ pc = "pr_call"
    /\ pr_invocations' = pr_invocations + 1
    /\ IF analysis.recommendation = BLOCK
       THEN Return(None)
       ELSE pc' = "pr_fetch" /\ UNCHANGED pr_result
    /\ UNCHANGED <<modifications, target_repo, remote_calls>>
    /\ PRFrame

\* _determine_modifications: one _get_file_content per file to check, then
\* create_update_pr, lines 64-66
PRFetch ==
    /\ pc = "pr_fetch"
    /\ LET paths == file_patterns(update.repo)
           k == Len(remote_calls) + 1
       IN  IF k <= Len(paths)
           THEN /\ \E ok \in BOOLEAN :
                     LET fetched == IF ok THEN files[paths[k]] ELSE None
                     IN  /\ Called("GET contents", ok /\ fetched # None)
                         /\ modifications' =
                               modifications \o staged(paths[k], fetched,
                                                       update.repo,
                                                       update.version)
                /\ UNCHANGED <<pc, pr_result>>
           ELSE /\ IF modifications = <<>>
                   THEN Return(None)
                   ELSE pc' = "pr_base" /\ UNCHANGED pr_result
                /\ UNCHANGED <<modifications, remote_calls>>
    /\ UNCHANGED <<pr_invocations, target_repo>>
    /\ PRFrame

\* _get_default_branch: "main" when the call fails
PRBase ==
    /\ pc = "pr_base"
    /\ \E ok \in BOOLEAN : Called("GET repo", ok)
    /\ pc' = "pr_sha"
    /\ UNCHANGED <<pr_invocations, pr_result, modifications, target_repo>>
    /\ PRFrame

\* _create_branch_with_changes, lines 209-212
PRSha ==
    /\ pc = "pr_sha"
    /\ \E ok \in BOOLEAN :
         /\ Called("GET ref", ok)
         /\ IF ok THEN pc' = "pr_ref" /\ UNCHANGED pr_result
            ELSE Return(None)
    /\ UNCHANGED <<pr_invocations, modifications, target_repo>>
    /\ PRFrame

\* the target already holds a branch of that name
branch_exists(branch_name) ==
    target_repo.branch /\ target_repo.ref = branch_name

PRRef_accepting_existing ==
    /\ pc = "pr_ref"
    /\ LET branch_name == generate_branch_name(update)
       IN  \E ok \in BOOLEAN :
             /\ Called("POST ref", ok)
             /\ IF ok
                THEN /\ target_repo' = [target_repo EXCEPT !.branch = TRUE,
                                                           !.ref = branch_name]
                     /\ pc' = "pr_commit"
                     /\ UNCHANGED pr_result
                ELSE /\ Return(None)
                     /\ UNCHANGED target_repo
    /\ UNCHANGED <<pr_invocations, modifications>>
    /\ PRFrame

\* _create_branch_with_changes, lines 215-218, with _create_branch_ref: the
\* POST of a ref that exists is answered 422, and only 201 counts as created
PRRef ==
    /\ pc = "pr_ref"
    /\ LET branch_name == generate_branch_name(update)
       IN  \E ok \in (IF branch_exists(branch_name) THEN {FALSE} ELSE BOOLEAN) :
             /\ Called("POST ref", ok)
             /\ IF ok
                THEN /\ target_repo' = [target_repo EXCEPT !.branch = TRUE,
                                                           !.ref = branch_name]
                     /\ pc' = "pr_commit"
                     /\ UNCHANGED pr_result
                ELSE /\ Return(None)
                     /\ UNCHANGED target_repo
    /\ UNCHANGED <<pr_invocations, modifications>>
    /\ PRFrame

PRCommit_ignoring_failure ==
    /\ pc = "pr_commit"
    /\ LET m == Len(remote_calls) - Len(file_patterns(update.repo)) - 3
       IN  IF m <= Len(modifications) - 1
           THEN /\ \E ok \in BOOLEAN :
                     /\ Called("PUT contents", ok)
                     /\ target_repo' =
                           IF ok
                           THEN [target_repo EXCEPT !.committed =
                                   Append(@, modifications[m + 1].path)]
                           ELSE target_repo
                /\ UNCHANGED <<pc, pr_result>>
           ELSE /\ pc' = "pr_pull"
                /\ UNCHANGED <<pr_result, target_repo, remote_calls>>
    /\ UNCHANGED <<pr_invocations, modifications>>
    /\ PRFrame

\* _create_branch_with_changes, lines 221-234: one _update_file per staged
\* modification; an _update_file that fails ends create_update_pr.  The call
\* listed is the PUT; ok is FALSE also when the GET before it raised
PRCommit ==
    /\ pc = "pr_commit"
    /\ LET m == Len(target_repo.committed) + 1
       IN  IF m <= Len(modifications)
           THEN \E ok \in BOOLEAN :
                  /\ Called("PUT contents", ok)
                  /\ IF ok
                     THEN /\ target_repo' =
                                [target_repo EXCEPT !.committed =
                                    Append(@, modifications[m].path)]
                          /\ UNCHANGED <<pc, pr_result>>
                     ELSE /\ Return(None)
                          /\ UNCHANGED target_repo
           ELSE /\ pc' = "pr_pull"
                /\ UNCHANGED <<pr_result, target_repo, remote_calls>>
    /\ UNCHANGED <<pr_invocations, modifications>>
    /\ PRFrame

\* _create_pull_request; an exception of _format_pr_body is caught by
\* create_update_pr
PRPull ==
    /\ pc = "pr_pull"
    /\ IF format_pr_body_raises(analysis)
       THEN /\ Return(None)
            /\ UNCHANGED <<target_repo, remote_calls>>
       ELSE \E ok \in BOOLEAN :
              /\ Called("POST pulls", ok)
              /\ IF ok
                 THEN /\ target_repo' = [target_repo EXCEPT !.pulls = @ + 1]
                      /\ Return(PrUrl)
                 ELSE /\ Return(None)
                      /\ UNCHANGED target_repo
    /\ UNCHANGED <<pr_invocations, modifications>>
    /\ PRFrame

\* create_update_pr is called again for the same update: its locals are
\* new, the target repository is as the call before left it
PRRepeat ==
    /\ pc = "pr_done"
    /\ pr_invocations < MaxAttempts
    /\ pc' = "pr_call"
    /\ modifications' = <<>>
    /\ remote_calls' = <<>>
    /\ pr_result' = None
    /\ UNCHANGED <<pr_invocations, target_repo>>
    /\ PRFrame

PRNext ==
    \/ PRRepeat
    \/ PRCall
    \/ PRFetch
    \/ PRBase
    \/ PRSha
    \/ PRRef
    \/ PRCommit
    \/ PRPull

PRSpec == PRInit /\ [][PRNext]_vars

\* ------------------------------------------------------------------------
\* Properties
\* ------------------------------------------------------------------------
Created == "Created issue"
Skipped == "Skipping - similar issue already exists"
Failed == "Failed to create issue"

\* C1 (Spec): a Verdict is only ever generated for a version that the state
\* store does not already record for that source, so a version processed and
\* written in an earlier run is not analysed again.  Violated for a source
\* watched for tags.
C1_VerdictOnlyForUnrecordedVersion ==
    pc = "decide" => get_last_seen(state, update.repo) # update.version

\* C2 (Spec): when process_update has returned for a detected update, the
\* record of its source holds the detected version, whatever the policy
\* decided and whatever happened to each issue creation.
C2_ReturnedRecordsVersion ==
    pc = "returned" => get_last_seen(state, update.repo) = update.version

C2_Witness ==
    /\ pc = "returned"
    /\ decision.value
    /\ notify_log = <<Failed, Skipped>>
    /\ get_last_seen(state, update.repo) = v1

\* C3 (StateSpec): after any sequence of update_last_seen calls,
\* is_new_version is true for every version of a key never recorded, and
\* otherwise false exactly for the version of the most recent call for that
\* key, earlier recorded versions included.
C3_IsNewIffNotLastRecorded ==
    \A k \in StateKeys, v \in Versions \cup {v1dot1, unknown} :
        is_new_version(state, k, v) = (recorded[k] = None \/ recorded[k] # v)

C3_Witness ==
    /\ recorded[AcmeW] = v1
    /\ state_file.status = "valid"
    /\ state_file.doc[AcmeW].last_version = v2
    /\ is_new_version(state, AcmeW, v2)
    /\ ~is_new_version(state, AcmeW, v1)
    /\ recorded[acmeg] = None
    /\ is_new_version(state, acmeg, v1)

\* C4 (PolicySpec): should_create_issue is the three-rule policy in
\* precedence order: act when priority >= 9 or the recommendation is BLOCK,
\* whatever the threshold; otherwise act exactly when priority >= threshold
\* and the recommendation is not IGNORE; otherwise do not act.
C4_ThreeRulePolicy ==
    decision.made =>
        LET p == analysis.priority.n
            rec == analysis.recommendation
            always == p >= 9 \/ rec = BLOCK
        IN  /\ always => decision.value
            /\ ~always /\ p >= min_priority /\ rec # IGNORE => decision.value
            /\ ~always /\ ~(p >= min_priority /\ rec # IGNORE)
                   => ~decision.value

C4_Witness ==
    /\ decision.made
    /\ decision.value
    /\ analysis.priority.n = 9
    /\ analysis.recommendation = IGNORE
    /\ min_priority = MaxThreshold

\* C5 (PolicySpec): for a fixed threshold and a fixed recommendation other
\* than BLOCK and IGNORE, when should_create_issue is true at a priority it
\* is true at every higher priority.
C5_MonotonicInPriority ==
    [][ ( /\ decision.made
          /\ decision.value
          /\ analysis.recommendation \notin {BLOCK, IGNORE}
          /\ analysis'.recommendation = analysis.recommendation
          /\ min_priority' = min_priority
          /\ analysis'.priority.n > analysis.priority.n )
        => decision'.value ]_vars

C5_Witness ==
    /\ decision.made
    /\ decision.value
    /\ decision.raised_from = 5
    /\ min_priority = 5
    /\ analysis.priority.n = 8
    /\ analysis.recommendation = EVALUATE

\* what can go wrong with an answer, said without the parser
NoJsonAtAll(text) == \A k \in 1..Len(text) : text[k].tok # "json"
UnfencedWithProse(text) ==
    /\ \A k \in 1..Len(text) : text[k].tok \notin {"fence", "fence_json"}
    /\ \E k \in 1..Len(text) : text[k].tok = "text"
LacksKeys(text) ==
    \A k \in 1..Len(text) :
        text[k].tok = "json" =>
            \/ text[k].value.kind # "object"
            \/ "priority" \notin text[k].value.has
            \/ "recommendation" \notin text[k].value.has

\* C6 (AnalyzerSpec): when the LLM call raises, or the answer is not
\* parseable JSON, or the parsed JSON lacks priority or recommendation,
\* analyze_update returns the fixed degraded Verdict: priority 5, EVALUATE,
\* breaking_changes false, risks ["Unable to analyze automatically"].
C6_FailureGivesDegradedVerdict ==
    ( /\ pc = "analyzed"
      /\ \/ llm.raises
         \/ NoJsonAtAll(llm.text)
         \/ UnfencedWithProse(llm.text)
         \/ LacksKeys(llm.text) )
    => /\ analysis.priority = JInt(5)
       /\ analysis.recommendation = EVALUATE
       /\ analysis.breaking_changes = FALSE
       /\ analysis.risks = JList(<<"Unable to analyze automatically">>)

C6_Witness ==
    /\ pc = "analyzed"
    /\ ~llm.raises
    /\ llm.text = <<Json(Object(Verdict(CriticalPriority, BLOCK),
                                {"recommendation"}))>>
    /\ analysis = Degraded

\* C7 (Spec): when classification failed and the degraded Verdict is used,
\* every target has been tried for a tracking issue by the time the version
\* is recorded.  Violated when min_priority_score is above 5.
C7_DegradedReachesEveryTarget ==
    pc = "returned" /\ analysis = Degraded
        => Len(notify_log) = Len(Targets)

\* C8 (NotifySpec): when the search answers with an item whose title
\* contains "<source> <version>", compared without case,
\* create_update_notification returns False, makes no creation call and
\* leaves the target's issues as they were.
C8_DuplicateMeansNoCreation ==
    [][ ( /\ pc' = "notifier"
          /\ last_notify'.search.status = "200"
          /\ \E t \in last_notify'.search.items :
                Contains(lower(t), lower(last_notify'.source_repo \o Sp
                                           \o last_notify'.new)) )
        => /\ ~last_notify'.success
           /\ ~last_notify'.post_made
           /\ issues' = issues ]_vars

C8_Witness ==
    /\ last_notify.search.status = "200"
    /\ last_notify.search.items = {HumanIssue}
    /\ last_notify.new = v1
    /\ ~last_notify.post_made
    /\ ~last_notify.success

\* C9 (NotifySpec): create_update_notification returns True exactly when the
\* creation call was answered 201, and then the issue is in the target; when
\* the creation call fails it returns False and the target's issues are as
\* they were.
C9_TrueIffCreated ==
    [][ pc' = "notifier" =>
          /\ last_notify'.success = (last_notify'.post_status = "201")
          /\ last_notify'.success => last_notify'.title \in issues'[1]
          /\ ( last_notify'.post_made /\ last_notify'.post_status # "201" )
                => ~last_notify'.success /\ issues' = issues ]_vars

C9_Witness ==
    /\ last_notify.post_made
    /\ last_notify.post_status = "422"
    /\ ~last_notify.success
    /\ last_notify.title \notin issues[1]

\* the BLOCK scenario: process_update is over for a new version of a source
\* with no record, under a well-formed Verdict that says BLOCK
BlockScenarioOver ==
    /\ pc \in {"returned", "caught"}
    /\ current_version = unknown
    /\ analysis.recommendation = BLOCK
    /\ analysis.priority.t = "int"
    /\ ~format_issue_body_raises(analysis)

IsBlockIssue(title) ==
    /\ Contains(title, BLOCK)
    /\ Contains(title, update.version)

\* C10 as stated (Spec): in the BLOCK scenario an issue whose title contains
\* BLOCK and the version is created in every target, the PR proposer is not
\* invoked, and the state records the version.
C10_BlockIssueInEveryTarget ==
    BlockScenarioOver =>
        /\ Len(notify_log) = Len(Targets)
        /\ \A t \in 1..Len(Targets) :
              /\ notify_log[t] = Created
              /\ \E title \in issues[t] : IsBlockIssue(title)
        /\ pr_invocations = 0
        /\ get_last_seen(state, update.repo) = update.version

\* C10 (Spec): in the BLOCK scenario process_update returns, the notifier
\* has been called once for every target, a target where the call created an
\* issue holds an issue whose title contains BLOCK and the version, a target
\* where it found a duplicate or the creation failed holds the issues it
\* held before, the PR proposer is not invoked, and the state records the
\* version.
C10_BlockNotifiesEveryTarget ==
    BlockScenarioOver =>
        /\ pc = "returned"
        /\ Len(notify_log) = Len(Targets)
        /\ \A t \in 1..Len(Targets) :
              /\ notify_log[t] = Created
                    => \E title \in issues[t] : IsBlockIssue(title)
              /\ notify_log[t] # Created => issues[t] = issues_at_entry[t]
        /\ pr_invocations = 0
        /\ get_last_seen(state, update.repo) = update.version

C10_Witness ==
    /\ BlockScenarioOver
    /\ notify_log = <<Created, Failed>>
    /\ \E title \in issues[1] : IsBlockIssue(title)
    /\ issues[2] = {}

\* C11 (PRSpec): on a Verdict whose recommendation is BLOCK create_update_pr
\* returns None at once: no remote call is made, nothing is staged and the
\* target repository is untouched.
C11_BlockRefusedWithoutRemoteCall ==
    (analysis.recommendation = BLOCK /\ pc # "pr_call")
        => /\ pc = "pr_done"
           /\ pr_result = None
           /\ remote_calls = <<>>
           /\ modifications = <<>>
           /\ target_repo = NoTargetRepo

C11_Witness ==
    /\ pc = "pr_done"
    /\ pr_invocations = 1
    /\ analysis.recommendation = BLOCK
    /\ update.repo = ComfyUI
    /\ files["Dockerfile"] = COMFYUI_COMMIT \o hash36357bb
    /\ remote_calls = <<>>

\* the source is not one of the three known ones
UnknownSource == update.repo \notin {ComfyUI, SageAttention, pytorch}

\* no file that was fetched is changed by the substitution
NoFetchedFileChanged ==
    \A k \in 1..Len(remote_calls) :
        (remote_calls[k].call = "GET contents" /\ remote_calls[k].ok)
        => LET old == files[file_patterns(update.repo)[k]]
           IN  update_file_content(old, update.repo, update.version) = old

\* C12 (PRSpec): when the source is not in the known-source table, or no
\* fetched file is changed by the substitution, create_update_pr returns
\* None after the file fetches, the only remote calls it made: no branch, no
\* commit, no pull request (the target of a first call is left untouched).
C12_NothingToChangeLeavesTarget ==
    ( /\ pc \notin {"pr_call", "pr_fetch"}
      /\ UnknownSource \/ NoFetchedFileChanged )
    => /\ pc = "pr_done"
       /\ pr_result = None
       /\ pr_invocations = 1 => target_repo = NoTargetRepo
       /\ \A k \in 1..Len(remote_calls) : remote_calls[k].call = "GET contents"

C12_Witness ==
    /\ pc = "pr_done"
    /\ analysis.recommendation = UPDATE
    /\ update.repo = ComfyUI
    /\ update.version = abc1234
    /\ files["Dockerfile"] = COMFYUI_COMMIT \o abc1234
    /\ remote_calls = << [call |-> "GET contents", ok |-> TRUE] >>
    /\ pr_result = None

\* a branch-SHA lookup, branch creation, file commit or PR creation failed
StepFailed(calls) ==
    \E k \in 1..Len(calls) :
        /\ calls[k].call \in {"GET ref", "POST ref", "PUT contents", "POST pulls"}
        /\ ~calls[k].ok

IsPrefix(a, b) == Len(a) <= Len(b) /\ SubSeq(b, 1, Len(a)) = a

\* C13 (PRSpec): a failed branch-SHA lookup, branch creation, file commit or
\* PR creation makes create_update_pr return None; a pull request is opened
\* only on a created branch holding a commit of every staged file; the
\* branch and the commits made before a failure stay in the target.
C13_FailureAbortsWithoutRollback ==
    [][ /\ StepFailed(remote_calls') => (pc' = "pr_done" /\ pr_result' = None)
        /\ pr_result' # None => target_repo'.pulls = 1
        /\ target_repo'.pulls > target_repo.pulls =>
              /\ target_repo'.branch
              /\ target_repo'.committed =
                    [k \in 1..Len(modifications') |-> modifications'[k].path]
        /\ target_repo.branch => target_repo'.branch
        /\ IsPrefix(target_repo.committed, target_repo'.committed)
        /\ target_repo.pulls <= target_repo'.pulls
      ]_vars

C13_Witness ==
    /\ pc = "pr_done"
    /\ pr_result = None
    /\ target_repo.branch
    /\ Len(modifications) = 2
    /\ target_repo.committed = <<modifications[1].path>>
    /\ target_repo.pulls = 0
    /\ remote_calls[Len(remote_calls)] = [call |-> "PUT contents", ok |-> FALSE]

\* C14 (SubstSpec): the ComfyUI commit substitution is idempotent: on a
\* content to which the rule was applied for a version, applying it again
\* for the same version changes nothing.  Violated for a version such as
\* v1.2.3, whose first seven characters are not all hexadecimal.
C14_CommitSubstitutionIdempotent ==
    ( /\ pc = "substitute"
      /\ update.repo = ComfyUI
      /\ applications >= 1 )
    => update_file_content(content, update.repo, update.version) = content

\* an abort of run that is no crash of the process
RunIsOver == pc # "idle" /\ pc' = "idle" /\ ~crashed'

\* C15 (Spec): an exception raised while a source is scanned or processed is
\* caught by the scan loop and the loop goes on with the next source; the
\* sources are scanned once each in configuration order, and a run ends only
\* when all of them were scanned.
C15_RunScansEverySourceInOrder ==
    [][ /\ \A k \in 1..Len(scanned') : scanned'[k].index = k
        /\ RunIsOver => Len(scanned) = Len(Sources)
        /\ (pc = "caught" /\ pc' # "idle") => (pc' = "scan" /\ i' = i + 1)
      ]_vars

C15_Witness ==
    /\ Len(scanned) = 2
    /\ scanned[1].raised
    /\ scanned[2].index = 2
    /\ pc = "analyze"
    /\ ~crashed

\* C16 (Spec): in a run started after a crash between two sources, no Verdict
\* is generated for a version that the reloaded state document records for
\* that source, so a source recorded before the crash is not analysed or
\* notified again.  Violated for a source watched for tags.
C16_RestartSkipsRecordedSources ==
    crashed /\ pc \in {"decide", "notify"}
        => get_last_seen(state, update.repo) # update.version

\* C17 (ScanSpec): for a source configured to watch tags, scan_repository
\* tries the latest release first and reports it, and when the source has no
\* release it reports the most recent tag.  Violated: the two branches are
\* if / elif on the configuration.
C17_ReleaseFirstThenTag ==
    ( /\ pc = "scanned"
      /\ "tags" \in scan_input.repo_config.watch_for
      /\ \A k \in StateKeys : ~state[k].present )
    => /\ get_latest_release(scan_input.release) # None
          => /\ update.type = "release"
             /\ update.version = get_latest_release(scan_input.release)
       /\ ( /\ get_latest_release(scan_input.release) = None
            /\ get_latest_tag(scan_input.tag) # None )
          => /\ update.type = "tag"
             /\ update.version = get_latest_tag(scan_input.tag)

\* C18 (AnalyzerSpec): every Verdict analyze_update returns has an integer
\* priority in 0..10 and a recommendation among UPDATE, EVALUATE, BLOCK and
\* IGNORE.  Violated: the parsed answer is returned as it is.
C18_VerdictInRange ==
    pc = "analyzed"
        => /\ analysis.priority.t = "int"
           /\ analysis.priority.n \in 0..10
           /\ analysis.recommendation \in {UPDATE, EVALUATE, BLOCK, IGNORE}

\* C19 (Spec): for a Verdict that passes the decision policy the change
\* proposer has been invoked by the time the state record is written.
\* Violated: process_update never calls it.
C19_ProposerInvokedBeforeRecord ==
    pc = "returned" /\ decision.made /\ decision.value => pr_invocations >= 1

\* C20 (Spec): process_update writes the record under the key that the scan
\* gave to is_new_version for that source and leaves every other record as
\* it was.  Violated for a source watched for tags.
C20_WritesTheKeyTheScanRead ==
    [][ (pc \in {"decide", "record"} /\ pc' = "returned") =>
          \A k \in StateKeys :
             IF k = scan_repo_key(Sources[i])
             THEN get_last_seen(state', k) = update.version
             ELSE state'[k] = state[k] ]_vars

\* C23 (NotifySpec): a duplicate search that fails, by its status or by an
\* exception, counts as "no existing issue": the creation call is made, and
\* when it is answered 201 the issue is created although an issue with the
\* same title may already be open.
C23_FailedSearchStillCreates ==
    last_notify.search.status \in {"403", "exception"}
        => /\ last_notify.existing = None
           /\ last_notify.post_made
           /\ last_notify.post_status \in CreateStatuses
           /\ last_notify.post_status = "201"
                 => /\ last_notify.success
                    /\ last_notify.title \in issues[1]

C23_Witness ==
    /\ last_notify.search.status = "exception"
    /\ last_notify.title \in last_notify.open_before
    /\ last_notify.post_status = "201"
    /\ last_notify.success

\* the title names this source and this version: the search term is followed
\* by a space or ends the title
NamesVersion(title, search_term) ==
    \/ Contains(lower(title), lower(search_term \o Sp))
    \/ /\ Len(title) >= Len(search_term)
       /\ lower(SubSeq(title, Len(title) - Len(search_term) + 1, Len(title)))
             = lower(search_term)

\* C24 (NotifySpec): create_update_notification is suppressed as a duplicate
\* only when the search returned an open issue that names the same source
\* and the same version.  Violated: the title of the issue for v1.1 contains
\* the search term of v1.
C24_OnlySameVersionSuppresses ==
    last_notify.existing # None
        => \E t \in last_notify.search.items :
              NamesVersion(t, last_notify.search_term)

\* the request scan_repository made for the source was not answered 200, or
\* raised
RequestFailed(input) ==
    IF "releases" \in input.repo_config.watch_for
    THEN input.release.status \in {"404", "500", "exception"}
    ELSE /\ "tags" \in input.repo_config.watch_for
         /\ input.tag.status \in {"500", "exception"}

\* C22 (Spec): a scan whose release or tag request failed raises nothing and
\* finds no update: the run goes on to the next source with no analysis, no
\* notification and the state store as it was.
C22_FailedRequestMeansNoUpdate ==
    [][(pc = "scan" /\ scanned' # scanned /\ scanned' # <<>>
           /\ RequestFailed(scan_input'))
          => /\ pc' = "scan"
             /\ i' = i + 1
             /\ update' = update
             /\ analysis' = analysis
             /\ llm' = llm
             /\ decision' = decision
             /\ issues' = issues
             /\ notify_log' = notify_log
             /\ state' = state
             /\ state_file' = state_file
             /\ recorded' = recorded]_vars

C22_Witness ==
    /\ pc = "scan"
    /\ i = 3
    /\ Len(scanned) = 2
    /\ scan_input.repo_config = Sources[2]
    /\ scan_input.release.status = "404"
    /\ ~scanned[1].raised
    /\ state = EmptyState
    /\ issues = [k \in 1..Len(Targets) |-> {}]
    /\ analysis = NoAnalysis

\* C21 (PRSpec): while the target holds the branch an earlier
\* create_update_pr left, a repeated create_update_pr for the same source
\* and version computes the name of that branch, gets no further than the
\* branch creation, which fails, returns None, and leaves the target as it
\* was: no commit and no pull request.
C21_OrphanedBranchBlocksRepeat ==
    [][(target_repo.branch
          /\ pc \in {"pr_call", "pr_fetch", "pr_base", "pr_sha", "pr_ref"})
         => /\ generate_branch_name(update) = target_repo.ref
            /\ pc' \in {"pr_fetch", "pr_base", "pr_sha", "pr_ref", "pr_done"}
            /\ pr_result' = None
            /\ target_repo' = target_repo
            /\ pc = "pr_ref"
                  => /\ pc' = "pr_done"
                     /\ remote_calls'[Len(remote_calls')]
                           = [call |-> "POST ref", ok |-> FALSE]]_vars

C21_Witness ==
    /\ pc = "pr_done"
    /\ pr_invocations = 2
    /\ pr_result = None
    /\ target_repo.branch
    /\ target_repo.ref = generate_branch_name(update)
    /\ Len(modifications) = 2
    /\ target_repo.committed = <<modifications[1].path>>
    /\ target_repo.pulls = 0
    /\ remote_calls[Len(remote_calls)] = [call |-> "POST ref", ok |-> FALSE]

====
